---------------------------- MODULE Spec2Model ----------------------------
(***************************************************************************)
(* Order query pipeline of the hospital order history dashboard:           *)
(* OrdersService.findAllWithFilters (scope, filter, two-level sort,        *)
(* paginate) and the OrdersController GET /orders handler in front of it;  *)
(* OrdersService.updateStatus and the order:updated events it emits; the   *)
(* OrdersPage handler that merges those events into the displayed page;    *)
(* the URLStateManager that keeps the query state in the URL.              *)
(*                                                                         *)
(* Strings that the code compares with <, splits, lower-cases or searches  *)
(* are sequences of UTF-16 code units; strings that are only compared for  *)
(* equality are TLA+ strings.  A Date is its getTime() value in ms.        *)
(* An optional value is <<>> (undefined / null) or <<v>>.                  *)
(***************************************************************************)
EXTENDS Integers, Sequences, FiniteSets, TLC

VARIABLES
    orders,     \* OrdersService.orders, the in-memory order store
    query,      \* the OrderQueryParamsDto of the request under way
    response,   \* what the caller got back: nothing yet, a page, or a 400
    filteredOrders, \* findAllWithFilters' working array when it returned
    serviceRan, \* whether OrdersService.findAllWithFilters was entered
    calls,      \* how many times OrdersService.findAllWithFilters returned
    clock,      \* the server's wall clock, read by new Date()
    emitted,    \* the order:updated events the gateway sent, with their room
    clientOrders, \* OrdersPage's `orders` state: the displayed page
    sortConfig, \* OrdersPage's `sort` state
    inbox,      \* setOrders updaters queued since the last render, by event
    lastRender, \* the page before the last render and the events it applied
    queryState, \* the filters, sort and pagination the URLStateManager is given
    url,        \* the query parameters of the URL
    decoded     \* what the URLStateManager read back from the URL

pipelineVars == <<orders, query, response, filteredOrders, serviceRan, calls>>
storeVars == <<clock, emitted>>
clientVars == <<clientOrders, sortConfig, inbox, lastRender>>
codecVars == <<queryState, url, decoded>>

vars == <<orders, query, response, filteredOrders, serviceRan, calls,
          clock, emitted, clientOrders, sortConfig, inbox, lastRender,
          queryState, url, decoded>>

-----------------------------------------------------------------------------
(* Bounds of the model *)

MaxOrders == 3
MaxFilterOrders == 1
MaxPage == 3
MaxCalls == 2
MaxUpdates == 2

-----------------------------------------------------------------------------
(* Optional values *)

None == <<>>
Some(v) == <<v>>
IsSome(x) == x # <<>>
Get(x) == x[1]
OrElse(x, d) == IF x = <<>> THEN d ELSE x[1]

(* String literals of the source, as code units *)

pending == <<112, 101, 110, 100, 105, 110, 103>>
confirmed == <<99, 111, 110, 102, 105, 114, 109, 101, 100>>
in_transit == <<105, 110, 95, 116, 114, 97, 110, 115, 105, 116>>
delivered == <<100, 101, 108, 105, 118, 101, 114, 101, 100>>
cancelled == <<99, 97, 110, 99, 101, 108, 108, 101, 100>>

OrderStatus == {pending, confirmed, in_transit, delivered, cancelled}

A_pos == <<65, 43>>    \* "A+"
O_neg == <<79, 45>>    \* "O-"

EmptyString == <<>>
Comma == 44

(* "O1", "O2", ...: the id of the i-th fixture order *)
OrderId(i) == <<79, 48 + i>>

-----------------------------------------------------------------------------
(* JavaScript primitives the service relies on *)

(* s < t on strings: lexicographic by code unit, a proper prefix is smaller *)
StrLess(s, t) ==
    \E i \in 1..Len(t) :
        /\ i - 1 <= Len(s)
        /\ \A j \in 1..(i - 1) : s[j] = t[j]
        /\ (i > Len(s) \/ s[i] < t[i])

(* String.prototype.toLowerCase on the ASCII range *)
toLowerCase(s) ==
    [i \in 1..Len(s) |-> IF s[i] >= 65 /\ s[i] <= 90 THEN s[i] + 32 ELSE s[i]]

(* String.prototype.includes *)
includes(s, sub) ==
    \E i \in 0..(Len(s) - Len(sub)) : SubSeq(s, i + 1, i + Len(sub)) = sub

(* String.prototype.split(','): the pieces between the commas, empty ones kept *)
RECURSIVE split(_)
split(s) ==
    IF \A i \in 1..Len(s) : s[i] # Comma
    THEN <<s>>
    ELSE LET k == CHOOSE i \in 1..Len(s) :
                      s[i] = Comma /\ \A j \in 1..(i - 1) : s[j] # Comma
         IN  <<SubSeq(s, 1, k - 1)>> \o split(SubSeq(s, k + 1, Len(s)))

(* Array.prototype.includes *)
arrayIncludes(arr, v) == \E i \in 1..Len(arr) : arr[i] = v

(* Array.prototype.join(',') of the client that builds the parameter *)
RECURSIVE join(_)
join(arr) ==
    IF arr = <<>> THEN EmptyString
    ELSE IF Len(arr) = 1 THEN arr[1]
    ELSE arr[1] \o <<Comma>> \o join(Tail(arr))

(* a falsy string parameter: undefined or '' *)
Truthy(p) == p # None /\ Get(p) # EmptyString

(* Date.getTime() of one day after another, in ms *)
MsPerDay == 86400000
HalfDay == MsPerDay \div 2

(* new Date('YYYY-MM-DD'): midnight UTC of that day; the date string is held
   as its day number *)
ParseDate(d) == d * MsPerDay

(* Math.ceil(a / b) for a >= 0, b > 0 *)
Ceil(a, n) == (a + n - 1) \div n

Min(x, y) == IF x < y THEN x ELSE y
Max(x, y) == IF x > y THEN x ELSE y

(* Array.prototype.slice(start, end), negative indices counted from the end *)
slice(arr, start, end) ==
    LET len == Len(arr)
        k == IF start < 0 THEN Max(len + start, 0) ELSE Min(start, len)
        f == IF end < 0 THEN Max(len + end, 0) ELSE Min(end, len)
    IN  SubSeq(arr, k + 1, f)

-----------------------------------------------------------------------------
(* OrdersService.findAllWithFilters, step by step *)

(* Start with all orders for the hospital *)
scopeToHospitalMutAll(store, hospitalId) == store

scopeToHospital(store, hospitalId) ==
    SelectSeq(store, LAMBDA order : order.hospital.id = hospitalId)

(* Apply date range filter *)
applyStartDate(os, startDate) ==
    IF IsSome(startDate)
    THEN LET start == ParseDate(Get(startDate))
         IN  SelectSeq(os, LAMBDA order : order.placedAt >= start)
    ELSE os

applyEndDateMutExclusive(os, endDate) ==
    IF IsSome(endDate)
    THEN LET end == ParseDate(Get(endDate))
         IN  SelectSeq(os, LAMBDA order : order.placedAt < end)
    ELSE os

applyEndDate(os, endDate) ==
    IF IsSome(endDate)
    THEN LET end == ParseDate(Get(endDate))
         IN  SelectSeq(os, LAMBDA order : order.placedAt <= end)
    ELSE os

(* Apply blood type filter *)
applyBloodTypes(os, bloodTypes) ==
    IF Truthy(bloodTypes)
    THEN LET bloodTypeArray == split(Get(bloodTypes))
         IN  SelectSeq(os, LAMBDA order : arrayIncludes(bloodTypeArray, order.bloodType))
    ELSE os

(* Apply status filter *)
applyStatuses(os, statuses) ==
    IF Truthy(statuses)
    THEN LET statusArray == split(Get(statuses))
         IN  SelectSeq(os, LAMBDA order : arrayIncludes(statusArray, order.status))
    ELSE os

(* Apply blood bank name filter (case-insensitive partial match) *)
applyBloodBank(os, bloodBank) ==
    IF Truthy(bloodBank)
    THEN LET searchTerm == toLowerCase(Get(bloodBank))
         IN  SelectSeq(os, LAMBDA order :
                 includes(toLowerCase(order.bloodBank.name), searchTerm))
    ELSE os

activeStatuses == <<pending, confirmed, in_transit>>

(* getSortValue: the value carries its JavaScript type *)
Num(n) == [t |-> "number", v |-> n]
Str(s) == [t |-> "string", v |-> s]

getSortValue(order, sortBy) ==
    CASE sortBy = "id" -> Str(order.id)
      [] sortBy = "bloodType" -> Str(order.bloodType)
      [] sortBy = "quantity" -> Num(order.quantity)
      [] sortBy = "bloodBank" -> Str(order.bloodBank.name)
      [] sortBy = "status" -> Str(order.status)
      [] sortBy = "rider" ->
            Str(IF IsSome(order.rider) /\ Get(order.rider).name # EmptyString
                THEN Get(order.rider).name ELSE EmptyString)
      [] sortBy = "placedAt" -> Num(order.placedAt)
      [] sortBy = "deliveredAt" ->
            Num(IF IsSome(order.deliveredAt) THEN Get(order.deliveredAt) ELSE 0)
      [] OTHER -> Num(order.placedAt)

(* aValue < bValue on two values of one type *)
jsLess(x, y) == IF x.t = "number" THEN x.v < y.v ELSE StrLess(x.v, y.v)

(* the comparator handed to filteredOrders.sort *)
compareMutNoPriority(a, b, sortBy, sortOrder) ==
    LET aValue == getSortValue(a, sortBy)
        bValue == getSortValue(b, sortBy)
    IN  IF jsLess(aValue, bValue) THEN (IF sortOrder = "asc" THEN -1 ELSE 1)
        ELSE IF jsLess(bValue, aValue) THEN (IF sortOrder = "asc" THEN 1 ELSE -1)
        ELSE 0

compareMutIgnoreDirection(a, b, sortBy, sortOrder) ==
    LET aIsActive == arrayIncludes(activeStatuses, a.status)
        bIsActive == arrayIncludes(activeStatuses, b.status)
        aValue == getSortValue(a, sortBy)
        bValue == getSortValue(b, sortBy)
    IN  IF aIsActive /\ ~bIsActive THEN -1
        ELSE IF ~aIsActive /\ bIsActive THEN 1
        ELSE IF jsLess(aValue, bValue) THEN 1
        ELSE IF jsLess(bValue, aValue) THEN -1
        ELSE 0

compare(a, b, sortBy, sortOrder) ==
    LET aIsActive == arrayIncludes(activeStatuses, a.status)
        bIsActive == arrayIncludes(activeStatuses, b.status)
        aValue == getSortValue(a, sortBy)
        bValue == getSortValue(b, sortBy)
    IN  IF aIsActive /\ ~bIsActive THEN -1
        ELSE IF ~aIsActive /\ bIsActive THEN 1
        ELSE IF jsLess(aValue, bValue) THEN (IF sortOrder = "asc" THEN -1 ELSE 1)
        ELSE IF jsLess(bValue, aValue) THEN (IF sortOrder = "asc" THEN 1 ELSE -1)
        ELSE 0

(* an unstable sort: an element goes before the elements that compare equal *)
insertSortedMutBeforeEquals(sorted, x, sortBy, sortOrder) ==
    LET k == CHOOSE i \in 1..(Len(sorted) + 1) :
                 /\ i = Len(sorted) + 1 \/ compare(sorted[i], x, sortBy, sortOrder) >= 0
                 /\ \A j \in 1..(i - 1) : compare(sorted[j], x, sortBy, sortOrder) < 0
    IN  SubSeq(sorted, 1, k - 1) \o <<x>> \o SubSeq(sorted, k, Len(sorted))

(* Array.prototype.sort: a stable sort (ECMAScript 2019), here by insertion;
   the comparator is a total preorder, so every stable sort gives this result *)
insertSorted(sorted, x, sortBy, sortOrder) ==
    LET k == CHOOSE i \in 1..(Len(sorted) + 1) :
                 /\ i = Len(sorted) + 1 \/ compare(sorted[i], x, sortBy, sortOrder) > 0
                 /\ \A j \in 1..(i - 1) : compare(sorted[j], x, sortBy, sortOrder) <= 0
    IN  SubSeq(sorted, 1, k - 1) \o <<x>> \o SubSeq(sorted, k, Len(sorted))

RECURSIVE sort(_, _, _)
sort(arr, sortBy, sortOrder) ==
    IF arr = <<>> THEN <<>>
    ELSE insertSorted(sort(SubSeq(arr, 1, Len(arr) - 1), sortBy, sortOrder),
                      arr[Len(arr)], sortBy, sortOrder)

(* the destructuring defaults of the parameters *)
DefaultPage == 1
DefaultPageSize == 25

(* the sort with ascending as the default direction *)
filterAndSortMutAscDefault(store, params) ==
    sort(applyBloodBank(applyStatuses(applyBloodTypes(applyEndDate(applyStartDate(
             scopeToHospital(store, params.hospitalId), params.startDate),
             params.endDate), params.bloodTypes), params.statuses), params.bloodBank),
         OrElse(params.sortBy, "placedAt"), OrElse(params.sortOrder, "asc"))

(* filteredOrders after the filters and the sort *)
filterAndSort(store, params) ==
    LET sortBy == OrElse(params.sortBy, "placedAt")
        sortOrder == OrElse(params.sortOrder, "desc")
        f0 == scopeToHospital(store, params.hospitalId)
        f1 == applyStartDate(f0, params.startDate)
        f2 == applyEndDate(f1, params.endDate)
        f3 == applyBloodTypes(f2, params.bloodTypes)
        f4 == applyStatuses(f3, params.statuses)
        f5 == applyBloodBank(f4, params.bloodBank)
    IN  sort(f5, sortBy, sortOrder)

(* this.orders after the call: the hospital filter builds a new array, and
   every later step reassigns or sorts that array, never this.orders *)
storeAfterFindMutInPlace(store, params) ==
    sort(store, OrElse(params.sortBy, "placedAt"), OrElse(params.sortOrder, "desc"))

storeAfterFind(store, params) == store

(* Calculate pagination *)
totalPagesOfMutFloor(totalCount, pageSize) == totalCount \div pageSize

totalPagesOf(totalCount, pageSize) == Ceil(totalCount, pageSize)

(* Get paginated results *)
paginateMutClamp(sorted, page, pageSize) ==
    LET last == Max(totalPagesOf(Len(sorted), pageSize), 1)
        startIndex == (Min(page, last) - 1) * pageSize
    IN  slice(sorted, startIndex, startIndex + pageSize)

paginateMutZeroBased(sorted, page, pageSize) ==
    LET startIndex == page * pageSize
        endIndex == startIndex + pageSize
    IN  slice(sorted, startIndex, endIndex)

paginate(sorted, page, pageSize) ==
    LET startIndex == (page - 1) * pageSize
        endIndex == startIndex + pageSize
    IN  slice(sorted, startIndex, endIndex)

(* the OrdersResponseDto built from the sorted working array *)
pageOf(sorted, params) ==
    LET page == OrElse(params.page, DefaultPage)
        pageSize == OrElse(params.pageSize, DefaultPageSize)
        totalCount == Len(sorted)
    IN  [kind |-> "page",
         data |-> paginate(sorted, page, pageSize),
         pagination |-> [currentPage |-> page,
                         pageSize |-> pageSize,
                         totalCount |-> totalCount,
                         totalPages |-> totalPagesOf(totalCount, pageSize)]]

-----------------------------------------------------------------------------
(* The orders and queries the model is run on *)

Ab == <<65, 98>>       \* "Ab"
b_ == <<98>>           \* "b"
aB == <<97, 66>>       \* "aB"
B_ == <<66>>           \* "B"
Al == <<65, 108>>      \* "Al"

Hospital1 == "HOSP-001"
Hospital2 == "HOSP-002"

(* the i-th order of a store: a pending order of hospital 1, placed on day 1 *)
BaseOrder(i) ==
    [id |-> OrderId(i),
     bloodType |-> A_pos,
     quantity |-> 2,
     bloodBank |-> [name |-> Ab],
     hospital |-> [id |-> Hospital1],
     status |-> pending,
     rider |-> None,
     placedAt |-> ParseDate(1),
     deliveredAt |-> None,
     confirmedAt |-> None,
     cancelledAt |-> None,
     createdAt |-> ParseDate(1),
     updatedAt |-> ParseDate(1)]

(* a query that sets the hospital only *)
BaseQuery ==
    [hospitalId |-> Hospital1,
     startDate |-> None, endDate |-> None,
     bloodTypes |-> None, statuses |-> None, bloodBank |-> None,
     sortBy |-> None, sortOrder |-> None,
     page |-> None, pageSize |-> None]

NoResponse == [kind |-> "none"]

(* nothing sent yet, nothing displayed yet, no URL written yet *)
StoreIdle == clock = 0 /\ emitted = <<>>

DefaultSort == [column |-> "placedAt", order |-> "desc"]

NoRender == [prev |-> <<>>, events |-> <<>>]

ClientIdle ==
    /\ clientOrders = <<>>
    /\ sortConfig = DefaultSort
    /\ inbox = <<>>
    /\ lastRender = NoRender

CodecIdle == queryState = None /\ url = None /\ decoded = None

PipelineFresh ==
    /\ response = NoResponse
    /\ filteredOrders = <<>>
    /\ serviceRan = FALSE
    /\ calls = 0

Fresh ==
    /\ PipelineFresh
    /\ StoreIdle
    /\ ClientIdle
    /\ CodecIdle

(* Sorting: every sort column against stores whose orders differ in status
   and in the field the column reads *)
SortColumns ==
    {"id", "bloodType", "quantity", "bloodBank", "status", "rider",
     "placedAt", "deliveredAt"}

(* the field a sortBy value makes getSortValue read *)
KeyField(sortBy) == IF sortBy \in SortColumns THEN sortBy ELSE "placedAt"

withKey(o, field, k) ==
    CASE field = "id" -> [o EXCEPT !.id = OrderId(k)]
      [] field = "bloodType" -> [o EXCEPT !.bloodType = <<A_pos, O_neg>>[k]]
      [] field = "quantity" -> [o EXCEPT !.quantity = <<2, 10>>[k]]
      [] field = "bloodBank" -> [o EXCEPT !.bloodBank.name = <<Ab, b_>>[k]]
      [] field = "status" -> o
      [] field = "rider" -> [o EXCEPT !.rider = <<None, Some([name |-> Al])>>[k]]
      [] field = "placedAt" ->
            [o EXCEPT !.placedAt = <<ParseDate(1), ParseDate(1) + HalfDay>>[k]]
      [] field = "deliveredAt" ->
            [o EXCEPT !.deliveredAt = <<None, Some(ParseDate(2))>>[k]]

KeyChoices(field, n) ==
    CASE field = "id" ->
            {f \in [1..n -> 1..n] : \A i, j \in 1..n : f[i] = f[j] => i = j}
      [] field = "status" -> {[i \in 1..n |-> 1]}
      [] OTHER -> [1..n -> 1..2]

SortQueries ==
    {[BaseQuery EXCEPT !.sortBy = Some(c), !.sortOrder = Some(d)] :
        c \in SortColumns \cup {"priority"}, d \in {"asc", "desc"}}
    \cup {BaseQuery}

InitSort ==
    /\ query \in SortQueries
    /\ \E n \in 0..MaxOrders :
         \E st \in [1..n -> OrderStatus] :
           \E ky \in KeyChoices(KeyField(OrElse(query.sortBy, "placedAt")), n) :
             orders = [i \in 1..n |->
                         withKey([BaseOrder(i) EXCEPT !.status = st[i]],
                                 KeyField(OrElse(query.sortBy, "placedAt")), ky[i])]
    /\ Fresh

(* Filtering: every combination of filters against stores whose orders differ
   in every field a filter reads *)
FilterOrders(i) ==
    {[BaseOrder(i) EXCEPT !.hospital.id = h, !.bloodType = bt, !.status = st,
                          !.bloodBank.name = bb, !.placedAt = at] :
        h \in {Hospital1, Hospital2},
        bt \in {A_pos, O_neg},
        st \in {pending, delivered},
        bb \in {Ab, b_},
        at \in {ParseDate(1) - HalfDay, ParseDate(1), ParseDate(1) + HalfDay}}

FilterQueries ==
    {[BaseQuery EXCEPT !.startDate = sd, !.endDate = ed, !.bloodTypes = bt,
                       !.statuses = st, !.bloodBank = bb] :
        sd \in {None, Some(1)},
        ed \in {None, Some(1)},
        bt \in {None, Some(A_pos), Some(join(<<O_neg, A_pos>>))},
        st \in {None, Some(pending), Some(join(<<delivered, cancelled>>))},
        bb \in {None, Some(EmptyString), Some(aB)}}
    \cup {[BaseQuery EXCEPT !.hospitalId = h, !.bloodBank = bb] :
             h \in {Hospital2, "HOSP-003"}, bb \in {None, Some(B_)}}

InitFilter ==
    /\ query \in FilterQueries
    /\ \E n \in 0..MaxFilterOrders :
         \E f \in [1..n -> FilterOrders(1)] :
           orders = [i \in 1..n |-> [f[i] EXCEPT !.id = OrderId(i)]]
    /\ Fresh

(* Paging: every page and page size against stores of every length *)
PageQueries ==
    {[BaseQuery EXCEPT !.page = pg, !.pageSize = ps] :
        pg \in {None} \cup {Some(n) : n \in (0 - 1)..MaxPage},
        ps \in {None, Some(1), Some(2), Some(25)}}

InitPage ==
    /\ query \in PageQueries
    /\ \E n \in 0..MaxOrders :
         \E st \in [1..n -> {pending, delivered}] :
           orders = [i \in 1..n |-> [BaseOrder(i) EXCEPT !.status = st[i]]]
    /\ Fresh

(* Repeated calls: stores of both hospitals, in and out of sorted order *)
PureQueries ==
    {[BaseQuery EXCEPT !.sortBy = sb, !.sortOrder = so] :
        sb \in {None, Some("quantity"), Some("status")},
        so \in {None, Some("asc")}}

InitPure ==
    /\ query \in PureQueries
    /\ \E n \in 0..MaxOrders :
         \E st \in [1..n -> {pending, delivered}], q \in [1..n -> {1, 2}],
            h \in [1..n -> {Hospital1, Hospital2}] :
           orders = [i \in 1..n |-> [BaseOrder(i) EXCEPT !.status = st[i],
                                                         !.quantity = q[i],
                                                         !.hospital = [id |-> h[i]]]]
    /\ Fresh

(* HTTP requests: valid and invalid page sizes, pages and date ranges.
   Page sizes are positive throughout: Math.ceil(totalCount / 0) is no number *)
RequestQueries ==
    {[BaseQuery EXCEPT !.page = pg, !.pageSize = ps, !.startDate = sd, !.endDate = ed] :
        pg \in {None, Some(0 - 1), Some(0), Some(1), Some(2)},
        ps \in {None, Some(1), Some(24), Some(25), Some(26), Some(50), Some(100)},
        sd \in {None, Some(0), Some(1), Some(2)},
        ed \in {None, Some(0), Some(1), Some(2)}}
    \cup {[BaseQuery EXCEPT !.sortBy = sb, !.sortOrder = so, !.pageSize = ps] :
             sb \in {Some("quantity"), Some("priority"), Some("")},
             so \in {None, Some("asc")},
             ps \in {None, Some(50), Some(26)}}

InitRequest ==
    /\ query \in RequestQueries
    /\ \E n \in 0..MaxOrders :
         orders = [i \in 1..n |-> [BaseOrder(i) EXCEPT !.placedAt = ParseDate(i - 1)]]
    /\ Fresh

(* Status updates: a store of two hospitals whose delivered orders carry
   their delivery time *)
shipped == <<115, 104, 105, 112, 112, 101, 100>>

StatusArguments == OrderStatus \cup {shipped}

StoredOrder(i, st, h) ==
    [BaseOrder(i) EXCEPT !.status = st,
                         !.hospital = [id |-> h],
                         !.confirmedAt = IF st = delivered THEN Some(ParseDate(1)) ELSE None,
                         !.deliveredAt = IF st = delivered THEN Some(ParseDate(2)) ELSE None]

StoreIds == {OrderId(i) : i \in 1..3}

InitStore ==
    /\ \E st \in [1..2 -> {pending, delivered}], h \in [1..2 -> {Hospital1, Hospital2}] :
         orders = [i \in 1..2 |-> StoredOrder(i, st[i], h[i])]
    /\ query = BaseQuery
    /\ Fresh

(* Live pages: the page a hospital fetched with GET /orders from a store of
   three of its orders, sorted by id or by status, all statuses or delivered
   orders only *)
LiveQueries ==
    {[BaseQuery EXCEPT !.sortBy = Some(sb), !.sortOrder = so, !.statuses = st] :
        sb \in {"id", "status"},
        so \in {None, Some("asc")},
        st \in {None, Some(delivered)}}

InitLive ==
    /\ query \in LiveQueries
    /\ \E st \in [1..3 -> {pending, delivered}] :
         orders = [i \in 1..3 |-> StoredOrder(i, st[i], Hospital1)]
    /\ PipelineFresh
    /\ StoreIdle
    /\ clientOrders = pageOf(filterAndSort(orders, query), query).data
    /\ sortConfig = [column |-> OrElse(query.sortBy, "placedAt"),
                     order |-> OrElse(query.sortOrder, "desc")]
    /\ inbox = <<>>
    /\ lastRender = NoRender
    /\ CodecIdle



-----------------------------------------------------------------------------
(* OrdersController, GET /orders *)

PageSizes == {25, 50, 100}

(* OrderQueryParamsDto: the fields whose class-validator constraints fail *)
DtoConstraintErrors(params) ==
    {"pageSize" : x \in {0} \cap (IF IsSome(params.pageSize)
                                     /\ Get(params.pageSize) \notin PageSizes
                                  THEN {0} ELSE {})}
    \cup {"page" : x \in {0} \cap (IF IsSome(params.page) /\ Get(params.page) < 1
                                   THEN {0} ELSE {})}
    \cup {"sortBy" : x \in {0} \cap (IF IsSome(params.sortBy)
                                        /\ Get(params.sortBy) \notin SortColumns
                                     THEN {0} ELSE {})}

(* the ValidationPipe on @Query: a BadRequestException when a constraint fails *)
validationPipeRejectsMutOff(params) == FALSE

validationPipeRejectsMutPageSizeOnly(params) ==
    "pageSize" \in DtoConstraintErrors(params)

validationPipeRejectsMutNoSortBy(params) ==
    DtoConstraintErrors(params) \ {"sortBy"} # {}

validationPipeRejects(params) == DtoConstraintErrors(params) # {}

(* Additional validation for date range *)
dateRangeRejectedMutStrict(params) ==
    /\ IsSome(params.startDate)
    /\ IsSome(params.endDate)
    /\ ParseDate(Get(params.startDate)) >= ParseDate(Get(params.endDate))

dateRangeRejected(params) ==
    /\ IsSome(params.startDate)
    /\ IsSome(params.endDate)
    /\ ParseDate(Get(params.startDate)) > ParseDate(Get(params.endDate))

BadRequest(msg, errs) ==
    [kind |-> "error", via |-> "controller", statusCode |-> 400,
     message |-> msg, errors |-> errs]

-----------------------------------------------------------------------------
(* OrdersService.updateStatus and OrdersGateway.emitOrderUpdate *)

(* new Date() at the server: later than every date of the stored orders, and
   later at every call *)
Now(t) == ParseDate(3) + t

indexOfId(store, id) ==
    IF \E i \in 1..Len(store) : store[i].id = id
    THEN CHOOSE i \in 1..Len(store) :
             /\ store[i].id = id
             /\ \A j \in 1..(i - 1) : store[j].id # id
    ELSE -1

(* an update that also stamps placedAt *)
updatedOrderOfMutTouchPlacedAt(order, status, now) ==
    [order EXCEPT !.status = status, !.updatedAt = now, !.placedAt = now]

(* { ...order, status: status as OrderStatus, updatedAt: new Date() } *)
updatedOrderOf(order, status, now) ==
    [order EXCEPT !.status = status, !.updatedAt = now]

(* the payload handed to emitOrderUpdate *)
updatePayload(updatedOrder) ==
    [id |-> updatedOrder.id,
     status |-> updatedOrder.status,
     rider |-> updatedOrder.rider,
     updatedAt |-> updatedOrder.updatedAt,
     deliveredAt |-> updatedOrder.deliveredAt]

(* an emit to one fixed room, whatever the hospital *)
emitOrderUpdateMutOneRoom(sent, hospitalId, order) ==
    Append(sent, [room |-> Hospital1, order |-> order])

(* this.server.to(`hospital:${hospitalId}`).emit('order:updated', order) *)
emitOrderUpdate(sent, hospitalId, order) ==
    Append(sent, [room |-> hospitalId, order |-> order])

UpdatedMessage == "Order status updated successfully"

(* what updateStatus returns when it found the order *)
updateStatusFound(updatedOrder) ==
    [kind |-> "updated", message |-> UpdatedMessage, data |-> updatedOrder]

(* a not-found error in place of the success message *)
updateStatusNotFoundMutThrow(id, status) ==
    [kind |-> "error", via |-> "service", statusCode |-> 404,
     message |-> "Order not found", errors |-> {}]

(* what updateStatus returns when no stored order has the id *)
updateStatusNotFound(id, status) ==
    [kind |-> "updated", message |-> UpdatedMessage,
     data |-> [id |-> id, status |-> status]]

-----------------------------------------------------------------------------
(* OrdersPage: merging order:updated events into the displayed page *)

(* a full replacement: what the event does not carry is lost *)
spreadMutReplace(order, updatedOrder) ==
    [f \in (DOMAIN order) \cup (DOMAIN updatedOrder) |->
        IF f \in DOMAIN updatedOrder THEN updatedOrder[f] ELSE None]

(* { ...order, ...updatedOrder } *)
spread(order, updatedOrder) ==
    [f \in (DOMAIN order) \cup (DOMAIN updatedOrder) |->
        IF f \in DOMAIN updatedOrder THEN updatedOrder[f] ELSE order[f]]

(* an upsert: an event that matches no order is added to the page *)
mapMergeMutUpsert(prevOrders, updatedOrder) ==
    IF \E i \in 1..Len(prevOrders) : prevOrders[i].id = updatedOrder.id
    THEN [i \in 1..Len(prevOrders) |->
             IF prevOrders[i].id = updatedOrder.id
             THEN spread(prevOrders[i], updatedOrder)
             ELSE prevOrders[i]]
    ELSE Append(prevOrders, updatedOrder)

mapMerge(prevOrders, updatedOrder) ==
    [i \in 1..Len(prevOrders) |->
        IF prevOrders[i].id = updatedOrder.id
        THEN spread(prevOrders[i], updatedOrder)
        ELSE prevOrders[i]]

(* sortOrders(updated, sort): the two-level comparator of the pipeline *)
sortOrders(os, srt) == sort(os, srt.column, srt.order)

(* the updater of the first version of the handler: merge, never re-sort *)
handleOrderUpdateMutNoResort(prevOrders, updatedOrder, srt) ==
    mapMerge(prevOrders, updatedOrder)

(* an updater that re-sorts after every event *)
handleOrderUpdateMutAlwaysResort(prevOrders, updatedOrder, srt) ==
    sortOrders(mapMerge(prevOrders, updatedOrder), srt)

(* the updater handleOrderUpdate passes to setOrders *)
handleOrderUpdate(prevOrders, updatedOrder, srt) ==
    LET updated == mapMerge(prevOrders, updatedOrder)
    IN  IF /\ "status" \in DOMAIN updatedOrder
           /\ updatedOrder.status # EmptyString
           /\ updatedOrder.status \in {delivered, cancelled}
        THEN sortOrders(updated, srt)
        ELSE updated

(* updaters that all start from the page as last rendered: the last one wins *)
applyUpdatersMutStale(prevOrders, queue, srt) ==
    IF queue = <<>> THEN prevOrders
    ELSE handleOrderUpdate(prevOrders, queue[Len(queue)], srt)

(* React applies the queued updaters in the order they were queued, each to
   the result of the one before *)
RECURSIVE applyUpdaters(_, _, _)
applyUpdaters(prevOrders, queue, srt) ==
    IF queue = <<>> THEN prevOrders
    ELSE applyUpdaters(handleOrderUpdate(prevOrders, Head(queue), srt),
                       Tail(queue), srt)

-----------------------------------------------------------------------------
(* URLStateManager: the query state in the URL's query string *)

Key_startDate == <<115, 116, 97, 114, 116, 68, 97, 116, 101>>
Key_endDate == <<101, 110, 100, 68, 97, 116, 101>>
Key_bloodTypes == <<98, 108, 111, 111, 100, 84, 121, 112, 101, 115>>
Key_statuses == <<115, 116, 97, 116, 117, 115, 101, 115>>
Key_bloodBank == <<98, 108, 111, 111, 100, 66, 97, 110, 107>>
Key_sortBy == <<115, 111, 114, 116, 66, 121>>
Key_sortOrder == <<115, 111, 114, 116, 79, 114, 100, 101, 114>>
Key_page == <<112, 97, 103, 101>>
Key_pageSize == <<112, 97, 103, 101, 83, 105, 122, 101>>

Col_placedAt == <<112, 108, 97, 99, 101, 100, 65, 116>>
Col_quantity == <<113, 117, 97, 110, 116, 105, 116, 121>>
Ord_asc == <<97, 115, 99>>
Ord_desc == <<100, 101, 115, 99>>

Ampersand == 38
EqualsSign == 61
PlusSign == 43
PercentSign == 37
Space == 32

RECURSIVE splitOn(_, _)
splitOn(s, sep) ==
    IF \E i \in 1..Len(s) : s[i] = sep
    THEN LET k == CHOOSE i \in 1..Len(s) :
                      s[i] = sep /\ \A j \in 1..(i - 1) : s[j] # sep
         IN  <<SubSeq(s, 1, k - 1)>> \o splitOn(SubSeq(s, k + 1, Len(s)), sep)
    ELSE <<s>>

RECURSIVE joinWith(_, _)
joinWith(arr, sep) ==
    IF arr = <<>> THEN <<>>
    ELSE IF Len(arr) = 1 THEN arr[1]
    ELSE arr[1] \o <<sep>> \o joinWith(Tail(arr), sep)

(* String(n) and parseInt(s, 10) on the non-negative integers *)
RECURSIVE toDecimal(_)
toDecimal(n) ==
    IF n < 10 THEN <<48 + n>> ELSE toDecimal(n \div 10) \o <<48 + (n % 10)>>

IsDigit(c) == c \in 48..57

RECURSIVE digitsValue(_, _)
digitsValue(s, acc) ==
    IF s = <<>> \/ ~IsDigit(Head(s)) THEN acc
    ELSE digitsValue(Tail(s), 10 * acc + (Head(s) - 48))

(* None is NaN *)
parseInt(s) ==
    IF s = <<>> \/ ~IsDigit(Head(s)) THEN None ELSE Some(digitsValue(s, 0))

(* application/x-www-form-urlencoded, as URLSearchParams writes and reads it *)
Unreserved(c) ==
    c \in (48..57) \cup (65..90) \cup (97..122) \cup {42, 45, 46, 95}

HexDigit(n) == IF n < 10 THEN 48 + n ELSE 55 + n

HexValue(c) ==
    IF c \in 48..57 THEN c - 48
    ELSE IF c \in 65..70 THEN c - 55
    ELSE IF c \in 97..102 THEN c - 87
    ELSE -1

PercentByte(b) == <<PercentSign, HexDigit(b \div 16), HexDigit(b % 16)>>

utf8(c) ==
    IF c < 128 THEN <<c>>
    ELSE IF c < 2048 THEN <<192 + (c \div 64), 128 + (c % 64)>>
    ELSE <<224 + (c \div 4096), 128 + ((c \div 64) % 64), 128 + (c % 64)>>

serializeChar(c) ==
    IF c = Space THEN <<PlusSign>>
    ELSE IF Unreserved(c) THEN <<c>>
    ELSE LET bs == utf8(c)
         IN  IF Len(bs) = 1 THEN PercentByte(bs[1])
             ELSE IF Len(bs) = 2 THEN PercentByte(bs[1]) \o PercentByte(bs[2])
             ELSE PercentByte(bs[1]) \o PercentByte(bs[2]) \o PercentByte(bs[3])

RECURSIVE formEncode(_)
formEncode(s) ==
    IF s = <<>> THEN <<>> ELSE serializeChar(Head(s)) \o formEncode(Tail(s))

RECURSIVE percentDecode(_)
percentDecode(s) ==
    IF s = <<>> THEN <<>>
    ELSE IF Head(s) = PlusSign THEN <<Space>> \o percentDecode(Tail(s))
    ELSE IF /\ Head(s) = PercentSign
            /\ Len(s) >= 3
            /\ HexValue(s[2]) >= 0
            /\ HexValue(s[3]) >= 0
         THEN <<16 * HexValue(s[2]) + HexValue(s[3])>>
                  \o percentDecode(SubSeq(s, 4, Len(s)))
    ELSE <<Head(s)>> \o percentDecode(Tail(s))

ReplacementChar == 65533

RECURSIVE utf8Decode(_)
utf8Decode(bs) ==
    IF bs = <<>> THEN <<>>
    ELSE IF bs[1] < 128 THEN <<bs[1]>> \o utf8Decode(Tail(bs))
    ELSE IF bs[1] \in 192..223 /\ Len(bs) >= 2 /\ bs[2] \in 128..191
         THEN <<(bs[1] - 192) * 64 + (bs[2] - 128)>>
                  \o utf8Decode(SubSeq(bs, 3, Len(bs)))
    ELSE IF /\ bs[1] \in 224..239 /\ Len(bs) >= 3
            /\ bs[2] \in 128..191 /\ bs[3] \in 128..191
         THEN <<(bs[1] - 224) * 4096 + (bs[2] - 128) * 64 + (bs[3] - 128)>>
                  \o utf8Decode(SubSeq(bs, 4, Len(bs)))
    ELSE <<ReplacementChar>> \o utf8Decode(Tail(bs))

formDecode(s) == utf8Decode(percentDecode(s))

(* URLSearchParams: a list of name/value pairs and its query string *)
Param(name, value) == [name |-> name, value |-> value]

RECURSIVE paramsToString(_)
paramsToString(params) ==
    IF params = <<>> THEN <<>>
    ELSE LET one == formEncode(params[1].name) \o <<EqualsSign>>
                        \o formEncode(params[1].value)
         IN  IF Len(params) = 1 THEN one
             ELSE one \o <<Ampersand>> \o paramsToString(Tail(params))

parsePair(part) ==
    LET halves == splitOn(part, EqualsSign)
    IN  Param(formDecode(halves[1]),
              formDecode(joinWith(Tail(halves), EqualsSign)))

RECURSIVE parsePairs(_)
parsePairs(parts) ==
    IF parts = <<>> THEN <<>>
    ELSE IF parts[1] = <<>> THEN parsePairs(Tail(parts))
    ELSE <<parsePair(parts[1])>> \o parsePairs(Tail(parts))

paramsFromString(qs) == parsePairs(splitOn(qs, Ampersand))

(* URLSearchParams.get: the first value of the name, or null *)
getParam(params, name) ==
    IF \E i \in 1..Len(params) : params[i].name = name
    THEN Some(params[CHOOSE i \in 1..Len(params) :
                         /\ params[i].name = name
                         /\ \A j \in 1..(i - 1) : params[j].name # name].value)
    ELSE None

(* YYYY-MM-DD of the days 2024-01-01 .. 2024-01-09, day 0 being 2024-01-01 *)
DatePrefix == <<50, 48, 50, 52, 45, 48, 49, 45, 48>>

FormatDate(d) == DatePrefix \o <<49 + d>>

ParseDateString(str) ==
    IF Len(str) = 10 /\ SubSeq(str, 1, 9) = DatePrefix /\ str[10] \in 49..57
    THEN Some(str[10] - 49)
    ELSE None

encodeFilters(filters) ==
    (IF IsSome(filters.startDate)
     THEN <<Param(Key_startDate, FormatDate(Get(filters.startDate)))>> ELSE <<>>)
    \o (IF IsSome(filters.endDate)
        THEN <<Param(Key_endDate, FormatDate(Get(filters.endDate)))>> ELSE <<>>)
    \o (IF filters.bloodTypes # <<>>
        THEN <<Param(Key_bloodTypes, joinWith(filters.bloodTypes, Comma))>> ELSE <<>>)
    \o (IF filters.statuses # <<>>
        THEN <<Param(Key_statuses, joinWith(filters.statuses, Comma))>> ELSE <<>>)
    \o (IF filters.bloodBank # EmptyString
        THEN <<Param(Key_bloodBank, filters.bloodBank)>> ELSE <<>>)

decodeFilters(params) ==
    LET sd == getParam(params, Key_startDate)
        ed == getParam(params, Key_endDate)
        bt == getParam(params, Key_bloodTypes)
        st == getParam(params, Key_statuses)
        bb == getParam(params, Key_bloodBank)
    IN  [startDate |-> IF IsSome(sd) THEN ParseDateString(Get(sd)) ELSE None,
         endDate |-> IF IsSome(ed) THEN ParseDateString(Get(ed)) ELSE None,
         bloodTypes |-> IF IsSome(bt) /\ Get(bt) # EmptyString
                        THEN splitOn(Get(bt), Comma) ELSE <<>>,
         statuses |-> IF IsSome(st) /\ Get(st) # EmptyString
                      THEN splitOn(Get(st), Comma) ELSE <<>>,
         bloodBank |-> OrElse(bb, EmptyString)]

(* updateURL(filters, sort, page): the query string it puts in the URL.
   The page size is not among its arguments *)
updateURL(filters, srt, pg) ==
    paramsToString(
        encodeFilters(filters)
        \o <<Param(Key_sortBy, srt.column), Param(Key_sortOrder, srt.order),
             Param(Key_page, toDecimal(pg))>>)

(* readFromURL(), with the pageSize the page takes from its result *)
readFromURL(qs) ==
    LET params == paramsFromString(qs)
        sb == getParam(params, Key_sortBy)
        so == getParam(params, Key_sortOrder)
        pg == IF IsSome(getParam(params, Key_page))
              THEN parseInt(Get(getParam(params, Key_page))) ELSE None
        ps == IF IsSome(getParam(params, Key_pageSize))
              THEN parseInt(Get(getParam(params, Key_pageSize))) ELSE None
    IN  [filters |-> decodeFilters(params),
         sort |-> [column |-> IF IsSome(sb) /\ Get(sb) # EmptyString
                              THEN Get(sb) ELSE Col_placedAt,
                   order |-> IF so = Some(Ord_asc) THEN Ord_asc ELSE Ord_desc],
         page |-> IF IsSome(pg) /\ Get(pg) >= 1 THEN Get(pg) ELSE DefaultPage,
         pageSize |-> IF IsSome(ps) /\ Get(ps) \in PageSizes
                      THEN Get(ps) ELSE DefaultPageSize]

(* Query states of every shape: bounds set and unset, empty and non-empty
   selections, search texts with reserved and non-ASCII characters *)
SearchTexts ==
    {EmptyString, <<65, 38, 98>>, <<97, 61, 98, 43, 35>>, <<32, 233, 37>>, <<8364, 44>>}

CodecStates ==
    {[filters |-> [startDate |-> sd, endDate |-> ed, bloodTypes |-> bt,
                   statuses |-> st, bloodBank |-> bb],
      sort |-> [column |-> col, order |-> ord],
      pagination |-> [page |-> pg, pageSize |-> ps]] :
        sd \in {None, Some(0)}, ed \in {None, Some(1)},
        bt \in {<<>>, <<A_pos>>, <<A_pos, O_neg>>},
        st \in {<<>>, <<pending>>, <<in_transit, delivered>>},
        bb \in SearchTexts,
        col \in {Col_placedAt, Col_quantity}, ord \in {Ord_asc, Ord_desc},
        pg \in 1..MaxPage, ps \in PageSizes}

InitCodec ==
    /\ queryState \in {Some(qs) : qs \in CodecStates}
    /\ url = None
    /\ decoded = None
    /\ orders = <<>>
    /\ query = BaseQuery
    /\ PipelineFresh
    /\ StoreIdle
    /\ ClientIdle

-----------------------------------------------------------------------------
(* Actions *)

(* the body of OrdersService.findAllWithFilters(query) *)
findAllWithFilters ==
    /\ LET sorted == filterAndSort(orders, query)
       IN  /\ filteredOrders' = sorted
           /\ response' = pageOf(sorted, query) @@ [via |-> "service"]
    /\ orders' = storeAfterFind(orders, query)
    /\ serviceRan' = TRUE
    /\ calls' = calls + 1
    /\ UNCHANGED <<query, storeVars, clientVars, codecVars>>

(* OrdersService.findAllWithFilters(query), called directly *)
FindAllWithFilters ==
    /\ response.kind = "none"
    /\ findAllWithFilters

(* the same call once more, on the same store with the same query *)
FindAllWithFiltersAgain ==
    /\ response.kind = "page"
    /\ response.via = "service"
    /\ calls < MaxCalls
    /\ findAllWithFilters

(* GET /orders: the ValidationPipe, the date range check, then the service *)
GetOrders ==
    /\ response.kind = "none"
    /\ IF validationPipeRejects(query)
       THEN /\ response' = BadRequest("Invalid query parameters",
                                      DtoConstraintErrors(query))
            /\ UNCHANGED <<filteredOrders, serviceRan>>
       ELSE IF dateRangeRejected(query)
       THEN /\ response' = BadRequest("startDate must be before or equal to endDate",
                                      {})
            /\ UNCHANGED <<filteredOrders, serviceRan>>
       ELSE LET sorted == filterAndSort(orders, query)
            IN  /\ filteredOrders' = sorted
                /\ response' = pageOf(sorted, query) @@ [via |-> "controller"]
                /\ serviceRan' = TRUE
    /\ UNCHANGED <<orders, query, calls, storeVars, clientVars, codecVars>>

(* OrdersService.updateStatus(id, status) *)
UpdateStatus(id, status) ==
    /\ clock < MaxUpdates
    /\ LET orderIndex == indexOfId(orders, id)
       IN  IF orderIndex # -1
           THEN LET order == orders[orderIndex]
                    updatedOrder == updatedOrderOf(order, status, Now(clock))
                IN  /\ orders' = [orders EXCEPT ![orderIndex] = updatedOrder]
                    /\ emitted' = emitOrderUpdate(emitted, order.hospital.id,
                                                  updatePayload(updatedOrder))
                    /\ clock' = clock + 1
                    /\ response' = updateStatusFound(updatedOrder)
           ELSE /\ response' = updateStatusNotFound(id, status)
                /\ UNCHANGED <<orders, emitted, clock>>
    /\ UNCHANGED <<query, filteredOrders, serviceRan, calls,
                   clientVars, codecVars>>

(* socket.on('order:updated', handleOrderUpdate): the oldest event in flight
   reaches the page if the page joined its room; the handler queues its
   updater with setOrders *)
ReceiveOrderUpdate ==
    /\ emitted # <<>>
    /\ emitted' = Tail(emitted)
    /\ IF Head(emitted).room = query.hospitalId
       THEN inbox' = Append(inbox, Head(emitted).order)
       ELSE inbox' = inbox
    /\ UNCHANGED <<pipelineVars, clock, clientOrders, sortConfig, lastRender,
                   codecVars>>

(* the next render of OrdersPage: the queued updaters produce the new state *)
Render ==
    /\ inbox # <<>>
    /\ clientOrders' = applyUpdaters(clientOrders, inbox, sortConfig)
    /\ lastRender' = [prev |-> clientOrders, events |-> inbox]
    /\ inbox' = <<>>
    /\ UNCHANGED <<pipelineVars, storeVars, sortConfig, codecVars>>

(* the state-change effect: URLStateManager.updateURL(filters, sort,
   pagination.page) *)
UpdateURL ==
    /\ IsSome(queryState)
    /\ url = None
    /\ url' = Some(updateURL(Get(queryState).filters, Get(queryState).sort,
                             Get(queryState).pagination.page))
    /\ UNCHANGED <<pipelineVars, storeVars, clientVars, queryState, decoded>>

(* the mount effect: URLStateManager.readFromURL(), then setFilters, setSort
   and setPagination({ page: urlState.page, pageSize: urlState.pageSize }) *)
ReadFromURL ==
    /\ IsSome(url)
    /\ decoded = None
    /\ LET urlState == readFromURL(Get(url))
       IN  decoded' = Some([filters |-> urlState.filters,
                            sort |-> urlState.sort,
                            pagination |-> [page |-> urlState.page,
                                            pageSize |-> urlState.pageSize]])
    /\ UNCHANGED <<pipelineVars, storeVars, clientVars, queryState, url>>

UpdateStatusAny ==
    \E id \in StoreIds \cup {OrderId(0)}, status \in StatusArguments :
        UpdateStatus(id, status)

UpdateStatusShown ==
    \E id \in StoreIds, status \in {pending, confirmed, delivered} :
        UpdateStatus(id, status)

Init ==
    \/ InitSort \/ InitFilter \/ InitPage \/ InitRequest \/ InitPure
    \/ InitStore \/ InitLive \/ InitCodec

Next ==
    \/ FindAllWithFilters \/ FindAllWithFiltersAgain \/ GetOrders
    \/ UpdateStatusAny \/ ReceiveOrderUpdate \/ Render
    \/ UpdateURL \/ ReadFromURL

Spec == Init /\ [][Next]_vars

SpecSort == InitSort /\ [][FindAllWithFilters]_vars
SpecFilter == InitFilter /\ [][FindAllWithFilters]_vars
SpecPage == InitPage /\ [][FindAllWithFilters]_vars
SpecRequest == InitRequest /\ [][GetOrders]_vars
SpecPaging ==
    (InitPage \/ InitRequest) /\ [][FindAllWithFilters \/ GetOrders]_vars
SpecStore == InitStore /\ [][UpdateStatusAny]_vars
SpecTenant == InitStore /\ [][UpdateStatusAny \/ ReceiveOrderUpdate]_vars
SpecLive == InitLive /\ [][UpdateStatusShown \/ ReceiveOrderUpdate \/ Render]_vars
SpecCodec == InitCodec /\ [][UpdateURL \/ ReadFromURL]_vars
SpecPure == InitPure /\ [][FindAllWithFilters \/ FindAllWithFiltersAgain]_vars

-----------------------------------------------------------------------------
(* Vocabulary of the properties *)

Range(seq) == {seq[i] : i \in 1..Len(seq)}

Active == {pending, confirmed, in_transit}
Completed == {delivered, cancelled}

IsPage == response.kind = "page"
Handled == response.kind # "none"

ReqPage == OrElse(query.page, 1)
ReqPageSize == OrElse(query.pageSize, 25)
ReqSortBy == OrElse(query.sortBy, "placedAt")
ReqSortOrder == OrElse(query.sortOrder, "desc")

(* the values a comma-joined parameter selects: its maximal comma-free runs;
   an unset or empty parameter selects nothing *)
Selected(p) ==
    IF p = None \/ Get(p) = EmptyString THEN {}
    ELSE LET s == Get(p)
         IN  {SubSeq(s, i, j) : <<i, j>> \in
                {<<i, j>> \in (1..(Len(s) + 1)) \X (0..Len(s)) :
                    /\ j >= i - 1
                    /\ \A k \in i..j : s[k] # Comma
                    /\ (i = 1 \/ s[i - 1] = Comma)
                    /\ (j = Len(s) \/ s[j + 1] = Comma)}}

(* case-insensitive letters *)
Fold(c) == IF c >= 65 /\ c <= 90 THEN c + 32 ELSE c

(* name contains text as a case-insensitive substring *)
ContainsFolded(name, text) ==
    \E off \in 0..(Len(name) - Len(text)) :
        \A k \in 1..Len(text) : Fold(name[off + k]) = Fold(text[k])

(* the order satisfies every filter dimension the query sets *)
Matches(o) ==
    /\ o.hospital.id = query.hospitalId
    /\ (IsSome(query.startDate) => o.placedAt >= Get(query.startDate) * MsPerDay)
    /\ (IsSome(query.endDate) => o.placedAt <= Get(query.endDate) * MsPerDay)
    /\ (Selected(query.bloodTypes) # {} => o.bloodType \in Selected(query.bloodTypes))
    /\ (Selected(query.statuses) # {} => o.status \in Selected(query.statuses))
    /\ (Truthy(query.bloodBank) => ContainsFolded(o.bloodBank.name, Get(query.bloodBank)))

MatchingOrders == {o \in Range(orders) : Matches(o)}

(* the least k with k * size >= n, for size > 0 *)
PagesFor(n, size) == CHOOSE k \in 0..n : k * size >= n /\ \A m \in 0..(k - 1) : m * size < n

-----------------------------------------------------------------------------
(* C1. Tenant isolation: no order of another hospital appears in the page
   built for the query's hospital, and none is counted in totalCount. *)
TenantIsolation ==
    IsPage =>
        /\ \A o \in Range(response.data) : o.hospital.id = query.hospitalId
        /\ \A o \in Range(filteredOrders) : o.hospital.id = query.hospitalId
        /\ response.pagination.totalCount <=
              Cardinality({o \in Range(orders) : o.hospital.id = query.hospitalId})

TenantIsolationWitness ==
    /\ IsPage
    /\ Truthy(query.bloodBank)
    /\ \E o \in Range(orders) :
          /\ o.hospital.id = Hospital1
          /\ query.hospitalId = Hospital2
          /\ Matches([o EXCEPT !.hospital.id = query.hospitalId])
          /\ o \notin Range(response.data)
    /\ response.pagination.totalCount = 0

(* C2. Active-first: in a page every active order precedes every completed
   order, whatever the sort column and direction. *)
ActiveFirst ==
    IsPage =>
        \A i, j \in 1..Len(response.data) :
            (response.data[i].status \in Completed /\ response.data[j].status \in Active)
                => j < i

ActiveFirstWitness ==
    /\ IsPage
    /\ query.sortOrder = Some("asc")
    /\ Len(orders) >= 2
    /\ orders[1].status \in Completed
    /\ orders[2].status \in Active
    /\ jsLess(getSortValue(orders[1], ReqSortBy), getSortValue(orders[2], ReqSortBy))
    /\ response.data[1] = orders[2]

(* C3. Filter exactness: the pipeline filters down to exactly the tenant's
   orders that satisfy every set filter dimension; every order of the page
   satisfies them and totalCount is the number of such orders. *)
FilterExact ==
    IsPage =>
        /\ Range(filteredOrders) = MatchingOrders
        /\ Len(filteredOrders) = Cardinality(MatchingOrders)
        /\ \A o \in Range(response.data) : Matches(o)
        /\ response.pagination.totalCount = Cardinality(MatchingOrders)

FilterExactWitness ==
    /\ IsPage
    /\ IsSome(query.startDate) /\ IsSome(query.endDate)
    /\ Cardinality(Selected(query.bloodTypes)) = 2
    /\ Cardinality(Selected(query.statuses)) = 2
    /\ Truthy(query.bloodBank)
    /\ response.pagination.totalCount = 1
    /\ response.data[1].bloodBank.name # Get(query.bloodBank)

SamePartition(x, y) ==
    \/ x.status \in Active /\ y.status \in Active
    \/ x.status \in Completed /\ y.status \in Completed

(* C4. Sort monotonicity: adjacent orders of one partition are in the
   requested direction by the sort column's value. *)
SortMonotone ==
    IsPage =>
        \A i \in 1..(Len(response.data) - 1) :
            LET x == response.data[i]
                y == response.data[i + 1]
            IN  SamePartition(x, y) =>
                    IF ReqSortOrder = "asc"
                    THEN ~jsLess(getSortValue(y, ReqSortBy), getSortValue(x, ReqSortBy))
                    ELSE ~jsLess(getSortValue(x, ReqSortBy), getSortValue(y, ReqSortBy))

SortMonotoneWitness ==
    /\ IsPage
    /\ query.sortOrder = Some("asc")
    /\ Len(response.data) = 3
    /\ SamePartition(response.data[1], response.data[2])
    /\ jsLess(getSortValue(response.data[1], ReqSortBy),
              getSortValue(response.data[2], ReqSortBy))
    /\ response.data[1] = orders[3]

(* C5. Pagination slice law: for page n >= 1 the page's data is the elements
   at indices [(n-1)*size, min(n*size, L)) of the filtered and ordered
   sequence, in order, so it never holds more than pageSize orders. *)
SliceLaw ==
    (IsPage /\ ReqPage >= 1) =>
        LET L == Len(filteredOrders)
            lo == (ReqPage - 1) * ReqPageSize
            hi == Min(ReqPage * ReqPageSize, L)
        IN  /\ Len(response.data) = Max(hi - lo, 0)
            /\ \A i \in 1..Len(response.data) : response.data[i] = filteredOrders[lo + i]
            /\ Len(response.data) <= ReqPageSize

SliceLawWitness ==
    /\ IsPage
    /\ ReqPage = 2
    /\ ReqPageSize = 2
    /\ Len(filteredOrders) = 3
    /\ response.data = <<filteredOrders[3]>>

(* C6. Pagination metadata: totalPages is ceil(totalCount / pageSize), 0 with
   empty data when totalCount is 0; currentPage and pageSize are the
   requested ones. *)
PageMetadata ==
    IsPage =>
        /\ response.pagination.totalPages =
              PagesFor(response.pagination.totalCount, response.pagination.pageSize)
        /\ (response.pagination.totalCount = 0 =>
              response.pagination.totalPages = 0 /\ response.data = <<>>)
        /\ response.pagination.currentPage = ReqPage
        /\ response.pagination.pageSize = ReqPageSize

PageMetadataWitness ==
    /\ IsPage
    /\ response.pagination.totalCount = 3
    /\ response.pagination.pageSize = 2
    /\ response.pagination.totalPages = 2

RequestWellFormed ==
    \/ response.via = "service"
    \/ /\ ReqPageSize \in {25, 50, 100}
       /\ ReqSortBy \in SortColumns
       /\ ~(IsSome(query.startDate) /\ IsSome(query.endDate)
            /\ Get(query.startDate) > Get(query.endDate))

(* C7. A page beyond the available range is not an error: its data is empty
   and totalCount and totalPages are those of the true filtered count. *)
BeyondRange ==
    (Handled /\ RequestWellFormed
       /\ ReqPage > PagesFor(Cardinality(MatchingOrders), ReqPageSize)) =>
        /\ IsPage
        /\ response.data = <<>>
        /\ response.pagination.totalCount = Cardinality(MatchingOrders)
        /\ response.pagination.totalPages =
              PagesFor(Cardinality(MatchingOrders), ReqPageSize)

BeyondRangeWitness ==
    /\ IsPage
    /\ ReqPage = 3
    /\ ReqPageSize = 2
    /\ response.data = <<>>
    /\ response.pagination.totalCount = 3

(* C8. A query whose pageSize is not 25, 50 or 100 is rejected with a
   validation error before any filtering runs; it yields no page. *)
InvalidPageSizeRejected ==
    (Handled /\ IsSome(query.pageSize) /\ Get(query.pageSize) \notin {25, 50, 100}) =>
        /\ response.kind = "error"
        /\ response.statusCode = 400
        /\ "pageSize" \in response.errors
        /\ ~serviceRan
        /\ filteredOrders = <<>>

InvalidPageSizeRejectedWitness ==
    /\ response.kind = "error"
    /\ query.pageSize = Some(26)
    /\ response.errors = {"pageSize"}
    /\ Len(orders) > 0

(* C9. A query with page < 1 is rejected with a validation error before any
   filtering runs; it yields no page. *)
InvalidPageRejected ==
    (Handled /\ IsSome(query.page) /\ Get(query.page) < 1) =>
        /\ response.kind = "error"
        /\ response.statusCode = 400
        /\ "page" \in response.errors
        /\ ~serviceRan
        /\ filteredOrders = <<>>

InvalidPageRejectedWitness ==
    /\ response.kind = "error"
    /\ query.page = Some(0)
    /\ response.errors = {"page"}
    /\ Len(orders) > 0

DateRangeInverted ==
    /\ IsSome(query.startDate)
    /\ IsSome(query.endDate)
    /\ Get(query.startDate) > Get(query.endDate)

(* C10. A date range with both bounds set and start > end is rejected before
   the pipeline is invoked; start = end, or a single bound, is not rejected
   for its date range. *)
InvertedDateRangeRejected ==
    Handled =>
        /\ DateRangeInverted =>
              response.kind = "error" /\ response.statusCode = 400 /\ ~serviceRan
        /\ (~DateRangeInverted /\ response.kind = "error") => response.errors # {}
        /\ (~DateRangeInverted /\ ReqPage >= 1 /\ ReqPageSize \in {25, 50, 100}
              /\ ReqSortBy \in SortColumns) => IsPage

InvertedDateRangeRejectedWitness ==
    /\ response.kind = "error"
    /\ response.errors = {}
    /\ query.startDate = Some(2)
    /\ query.endDate = Some(1)
    /\ Len(orders) > 0

(* C11. A query naming an unknown sort column is rejected with a validation
   error before any filtering; it yields no page. *)
UnknownSortColumnRejected ==
    (Handled /\ IsSome(query.sortBy)
       /\ Get(query.sortBy) \notin {"id", "bloodType", "quantity", "bloodBank",
                                    "status", "rider", "placedAt", "deliveredAt"}) =>
        /\ response.kind = "error"
        /\ response.statusCode = 400
        /\ "sortBy" \in response.errors
        /\ ~serviceRan
        /\ filteredOrders = <<>>

UnknownSortColumnRejectedWitness ==
    /\ response.kind = "error"
    /\ query.sortBy = Some("priority")
    /\ response.errors = {"sortBy"}
    /\ Len(orders) > 0

(* C12. The query pipeline is a pure transform: a call to findAllWithFilters
   leaves the order store as it was (same orders, same field values, same
   stored order), and a second call on the same store with the same query
   returns the page the first call returned. *)
PureTransform ==
    [][(calls' = calls + 1) =>
          /\ orders' = orders
          /\ (calls >= 1 /\ query' = query) =>
                /\ response'.data = response.data
                /\ response'.pagination = response.pagination]_vars

PureTransformWitness ==
    /\ calls = 2
    /\ response.kind = "page"
    /\ Len(orders) >= 2
    /\ Len(response.data) = Len(orders)
    /\ response.data # orders

(* C13. Active-first under reconciliation: whatever update events the handler
   has merged into a page the pipeline produced, every active order of the
   displayed page precedes every completed order. *)
ActiveFirstOnPage ==
    \A i, j \in 1..Len(clientOrders) :
        (clientOrders[i].status \in Completed /\ clientOrders[j].status \in Active)
            => j < i

(* C14. Reconciliation no-match: a render whose events all name ids that are
   not in the page leaves the page as it was (same orders, same positions,
   same field values), whatever the events' statuses and whatever earlier
   events made of the page. *)
NoMatchLeavesPage ==
    (/\ lastRender.events # <<>>
     /\ \A k \in 1..Len(lastRender.events) :
           \A i \in 1..Len(lastRender.prev) :
               lastRender.prev[i].id # lastRender.events[k].id)
        => clientOrders = lastRender.prev

(* the one event the last render applied, if it applied one *)
OneEvent == Len(lastRender.events) = 1
TheEvent == lastRender.events[1]

PosOn(pg, id) == CHOOSE i \in 1..Len(pg) : pg[i].id = id
OnPage(pg, id) == \E i \in 1..Len(pg) : pg[i].id = id

(* the last render applied one event that completes an active order of the page *)
CompletesActive ==
    /\ OneEvent
    /\ OnPage(lastRender.prev, TheEvent.id)
    /\ lastRender.prev[PosOn(lastRender.prev, TheEvent.id)].status \in Active
    /\ TheEvent.status \in Completed

KeyBefore(a, b) ==
    IF sortConfig.order = "asc"
    THEN jsLess(getSortValue(a, sortConfig.column), getSortValue(b, sortConfig.column))
    ELSE jsLess(getSortValue(b, sortConfig.column), getSortValue(a, sortConfig.column))

(* C15. Reconciliation repositioning: when an order shown with an active
   status receives an event with a completed status, the revised page has it
   after every remaining active order, and among the completed orders where
   the sort column and direction put it. *)
Repositioned ==
    CompletesActive =>
        LET p == PosOn(clientOrders, TheEvent.id)
        IN  /\ OnPage(clientOrders, TheEvent.id)
            /\ clientOrders[p].status = TheEvent.status
            /\ \A i \in 1..Len(clientOrders) :
                  /\ clientOrders[i].status \in Active => i < p
                  /\ (i # p /\ clientOrders[i].status \in Completed) =>
                        /\ KeyBefore(clientOrders[p], clientOrders[i]) => p < i
                        /\ KeyBefore(clientOrders[i], clientOrders[p]) => i < p

RepositionedWitness ==
    /\ CompletesActive
    /\ Len(clientOrders) = 3
    /\ lastRender.prev[1].id = TheEvent.id
    /\ clientOrders[1].status \in Active
    /\ clientOrders[2].id = TheEvent.id
    /\ clientOrders[3].status \in Completed
    /\ KeyBefore(clientOrders[2], clientOrders[3])

(* C16. Partial merge: reconciling an event changes, in the order it names,
   only the fields the event carries; every field the event does not carry
   keeps its value, and every other order of the page keeps all its fields. *)
PartialMerge ==
    OneEvent =>
        /\ Len(clientOrders) = Len(lastRender.prev)
        /\ \A i \in 1..Len(lastRender.prev) :
              LET old == lastRender.prev[i]
              IN  /\ OnPage(clientOrders, old.id)
                  /\ LET new == clientOrders[PosOn(clientOrders, old.id)]
                     IN  IF old.id # TheEvent.id
                         THEN new = old
                         ELSE /\ DOMAIN new = (DOMAIN old) \cup (DOMAIN TheEvent)
                              /\ \A f \in DOMAIN new :
                                    new[f] = IF f \in DOMAIN TheEvent
                                             THEN TheEvent[f] ELSE old[f]

PartialMergeWitness ==
    /\ OneEvent
    /\ Len(clientOrders) >= 2
    /\ OnPage(lastRender.prev, TheEvent.id)
    /\ LET old == lastRender.prev[PosOn(lastRender.prev, TheEvent.id)]
           new == clientOrders[PosOn(clientOrders, TheEvent.id)]
       IN  /\ new.status # old.status
           /\ new.updatedAt # old.updatedAt
           /\ new.bloodType = A_pos
           /\ new.confirmedAt # None
           /\ "bloodType" \notin DOMAIN TheEvent

(* C17. Codec round-trip: whatever the query state (date bounds set or not,
   any blood types and statuses, any search text, any sort, page and page
   size), what is read back from the URL written for it equals it. *)
RoundTrip ==
    IsSome(decoded) => Get(decoded) = Get(queryState)

(* what does come back: everything but the page size *)
RoundTripButPageSize ==
    IsSome(decoded) =>
        /\ Get(decoded).filters = Get(queryState).filters
        /\ Get(decoded).sort = Get(queryState).sort
        /\ Get(decoded).pagination.page = Get(queryState).pagination.page

(* the page after the first n of the events, one after the other *)
RECURSIVE AfterEvents(_, _, _)
AfterEvents(pg, events, n) ==
    IF n = 0 THEN pg
    ELSE handleOrderUpdate(AfterEvents(pg, events, n - 1), events[n], sortConfig)

(* C18. Single-writer application of events: the events that arrived for a
   page are applied one at a time in arrival order, so the page after a
   render is the sequential application of its events; no order id is ever
   twice in the page, so none is in both the active and the completed
   section. *)
AppliedInArrivalOrder ==
    /\ lastRender.events # <<>> =>
          clientOrders = AfterEvents(lastRender.prev, lastRender.events,
                                     Len(lastRender.events))
    /\ \A i, j \in 1..Len(clientOrders) :
          clientOrders[i].id = clientOrders[j].id => i = j

AppliedInArrivalOrderWitness ==
    /\ Len(lastRender.events) = 2
    /\ lastRender.events[1].id # lastRender.events[2].id
    /\ OnPage(lastRender.prev, lastRender.events[1].id)
    /\ OnPage(lastRender.prev, lastRender.events[2].id)
    /\ \A k \in 1..2 :
          LET e == lastRender.events[k]
          IN  /\ lastRender.prev[PosOn(lastRender.prev, e.id)].status # e.status
              /\ clientOrders[PosOn(clientOrders, e.id)].status = e.status

(* C19. Status timestamps: whenever a stored order's status is delivered
   (confirmed, cancelled), its deliveredAt (confirmedAt, cancelledAt) is set. *)
StatusTimestampsSet ==
    \A i \in 1..Len(orders) :
        /\ orders[i].status = delivered => IsSome(orders[i].deliveredAt)
        /\ orders[i].status = confirmed => IsSome(orders[i].confirmedAt)
        /\ orders[i].status = cancelled => IsSome(orders[i].cancelledAt)

(* C20. Status partition: every stored order's status is one of pending,
   confirmed, in_transit, delivered, cancelled, so every stored order is
   either active or completed, and not both. *)
StatusInPartition ==
    \A i \in 1..Len(orders) :
        /\ orders[i].status \in OrderStatus
        /\ (orders[i].status \in Active) # (orders[i].status \in Completed)

(* the page is in the order the two-level comparator gives for the sort *)
InComparatorOrder(pg) ==
    \A i, j \in 1..Len(pg) :
        i < j => compare(pg[i], pg[j], sortConfig.column, sortConfig.order) <= 0

SamePartitionStatus(s1, s2) ==
    \/ s1 \in Active /\ s2 \in Active
    \/ s1 \in Completed /\ s2 \in Completed

(* C21. Same-partition status change keeps position: when an event changes a
   displayed order's status to another status of the same partition, the
   merged page is still in the order the two-level comparator gives for the
   current sort column and direction. *)
SamePartitionKeepsOrder ==
    (/\ OneEvent
     /\ OnPage(lastRender.prev, TheEvent.id)
     /\ SamePartitionStatus(
            lastRender.prev[PosOn(lastRender.prev, TheEvent.id)].status,
            TheEvent.status)
     /\ InComparatorOrder(lastRender.prev))
        => InComparatorOrder(clientOrders)

(* C22. Reconciliation keeps the filter invariants: after any events, every
   order of the displayed page still satisfies every filter dimension of the
   query the page was built under, the status filter in particular. *)
PageSatisfiesFilters ==
    \A i \in 1..Len(clientOrders) : Matches(clientOrders[i])

(* two stored orders tie: same partition, neither sort key below the other *)
Tie(a, b) ==
    /\ (a.status \in Active) = (b.status \in Active)
    /\ ~jsLess(getSortValue(a, ReqSortBy), getSortValue(b, ReqSortBy))
    /\ ~jsLess(getSortValue(b, ReqSortBy), getSortValue(a, ReqSortBy))

PosIn(seq, x) == CHOOSE p \in 1..Len(seq) : seq[p] = x

(* C24. Sort stability: two orders of the same partition with equal sort keys
   are in the page in the relative order they have in the store, for every
   sort column and both directions. *)
SortStable ==
    IsPage =>
        \A i, j \in 1..Len(orders) :
            (/\ i < j
             /\ Tie(orders[i], orders[j])
             /\ orders[i] \in Range(response.data)
             /\ orders[j] \in Range(response.data))
                => PosIn(response.data, orders[i]) < PosIn(response.data, orders[j])

SortStableWitness ==
    /\ IsPage
    /\ Len(orders) = 3
    /\ Tie(orders[1], orders[2])
    /\ orders[1].status \in Completed
    /\ orders[3].status \in Active
    /\ response.data = <<orders[3], orders[1], orders[2]>>

(* a value of the field that is there but is none the field may take *)
Malformed ==
    [sortBy |-> IsSome(query.sortBy) /\ Get(query.sortBy) \notin SortColumns,
     page |-> IsSome(query.page) /\ Get(query.page) < 1,
     pageSize |-> IsSome(query.pageSize) /\ Get(query.pageSize) \notin {25, 50, 100}]

AnyMalformed == Malformed.sortBy \/ Malformed.page \/ Malformed.pageSize

(* the query with every missing or malformed field given its default *)
WithDefaults ==
    [query EXCEPT
        !.sortBy = IF query.sortBy = None \/ Malformed.sortBy
                   THEN Some("placedAt") ELSE query.sortBy,
        !.sortOrder = IF query.sortOrder = None THEN Some("desc") ELSE query.sortOrder,
        !.page = IF query.page = None \/ Malformed.page THEN Some(1) ELSE query.page,
        !.pageSize = IF query.pageSize = None \/ Malformed.pageSize
                     THEN Some(25) ELSE query.pageSize]

AnswersAsWithDefaults ==
    /\ IsPage
    /\ response.data = pageOf(filterAndSort(orders, WithDefaults), WithDefaults).data
    /\ response.pagination =
          pageOf(filterAndSort(orders, WithDefaults), WithDefaults).pagination

(* C25, as stated. Whenever sortBy, sortOrder, page or pageSize is missing or
   malformed, the query does not fail and answers as with the field's default. *)
DefaultsOnMissingOrMalformed ==
    (Handled /\ ~DateRangeInverted) => AnswersAsWithDefaults

(* C25. Defaults on missing keys: a query whose sortBy, sortOrder, page or
   pageSize is missing answers as with placedAt, desc, 1 and 25, and absent
   bloodTypes and statuses keys put no constraint; a malformed page, pageSize
   or sortBy is not replaced by the default: GET /orders rejects it with a
   400, and the service called directly takes page and pageSize as given. *)
DefaultsOnMissing ==
    /\ (Handled /\ ~DateRangeInverted /\ ~AnyMalformed) =>
          /\ AnswersAsWithDefaults
          /\ (query.bloodTypes = None /\ query.statuses = None) =>
                response.pagination.totalCount = Cardinality(MatchingOrders)
    /\ (Handled /\ AnyMalformed) =>
          IF response.via = "controller"
          THEN response.kind = "error" /\ response.statusCode = 400
          ELSE /\ IsPage
               /\ response.pagination.currentPage = ReqPage
               /\ response.pagination.pageSize = ReqPageSize

DefaultsOnMissingWitness ==
    /\ IsPage
    /\ query = BaseQuery
    /\ Len(orders) = 3
    /\ response.data = <<orders[3], orders[2], orders[1]>>
    /\ response.pagination.currentPage = 1
    /\ response.pagination.pageSize = 25

IdsOf(pg) == [i \in 1..Len(pg) |-> pg[i].id]

(* the last render applied one event that makes a completed order active *)
ReactivatesCompleted ==
    /\ OneEvent
    /\ OnPage(lastRender.prev, TheEvent.id)
    /\ lastRender.prev[PosOn(lastRender.prev, TheEvent.id)].status \in Completed
    /\ TheEvent.status \in Active

(* C26. Completed-to-active anomaly: an event that gives an active status to
   a displayed completed order is merged into the order without a re-sort:
   the sequence of order ids of the page is unchanged. *)
AnomalyMergedInPlace ==
    ReactivatesCompleted =>
        /\ IdsOf(clientOrders) = IdsOf(lastRender.prev)
        /\ clientOrders[PosOn(clientOrders, TheEvent.id)].status = TheEvent.status
        /\ clientOrders[PosOn(clientOrders, TheEvent.id)].updatedAt = TheEvent.updatedAt

AnomalyMergedInPlaceWitness ==
    /\ ReactivatesCompleted
    /\ InComparatorOrder(lastRender.prev)
    /\ ~InComparatorOrder(clientOrders)
    /\ PosOn(clientOrders, TheEvent.id) > 1

(* C27. Reconciliation preserves page membership: whatever events a render
   applies, matching or not, the page holds the same order ids as before,
   each once; its length does not change and does not exceed the page size. *)
MembershipPreserved ==
    /\ Len(clientOrders) <= ReqPageSize
    /\ \A i, j \in 1..Len(clientOrders) :
          clientOrders[i].id = clientOrders[j].id => i = j
    /\ lastRender.events # <<>> =>
          /\ Len(clientOrders) = Len(lastRender.prev)
          /\ Range(IdsOf(clientOrders)) = Range(IdsOf(lastRender.prev))

MembershipPreservedWitness ==
    /\ Len(lastRender.events) = 2
    /\ \E k \in 1..2 : OnPage(lastRender.prev, lastRender.events[k].id)
    /\ \E k \in 1..2 : ~OnPage(lastRender.prev, lastRender.events[k].id)
    /\ Len(clientOrders) = 2
    /\ IdsOf(clientOrders) # IdsOf(lastRender.prev)

StoredWithId(id) == orders[CHOOSE i \in 1..Len(orders) : orders[i].id = id]

(* C28. Update events follow store mutations and stay inside the tenant: an
   updateStatus call that finds the order emits exactly one event, addressed
   to the room of that order's hospital and carrying the id, status and
   updatedAt now stored; nothing is emitted without a store mutation; the
   page of a hospital receives no event of another hospital's order. *)
EventsFollowMutations ==
    /\ [](\A k \in 1..Len(inbox) :
             StoredWithId(inbox[k].id).hospital.id = query.hospitalId)
    /\ [][/\ orders' # orders => Len(emitted') = Len(emitted) + 1
          /\ Len(emitted') > Len(emitted) =>
                /\ Len(emitted') = Len(emitted) + 1
                /\ SubSeq(emitted', 1, Len(emitted)) = emitted
                /\ \E i \in 1..Len(orders) :
                      LET e == emitted'[Len(emitted')]
                      IN  /\ orders'[i] # orders[i]
                          /\ e.room = orders'[i].hospital.id
                          /\ e.order.id = orders'[i].id
                          /\ e.order.status = orders'[i].status
                          /\ e.order.updatedAt = orders'[i].updatedAt]_vars

EventsFollowMutationsWitness ==
    /\ clock = 2
    /\ emitted = <<>>
    /\ Len(inbox) = 1
    /\ orders[1].hospital.id = Hospital1
    /\ orders[2].hospital.id = Hospital2
    /\ inbox[1].id = orders[1].id
    /\ orders[2].updatedAt = Now(1)

(* C29. updateStatus on an unknown id: the order store is left as it was, no
   event is emitted, and the call returns the success message with the id and
   the status it was given. *)
UnknownIdIsNoOp ==
    [][(/\ response' # response
        /\ response'.kind = "updated" => ~OnPage(orders, response'.data.id))
          => /\ orders' = orders
             /\ emitted' = emitted
             /\ response'.kind = "updated"
             /\ response'.message = "Order status updated successfully"
             /\ DOMAIN response'.data = {"id", "status"}]_vars

UnknownIdIsNoOpWitness ==
    /\ response.kind = "updated"
    /\ response.data = [id |-> OrderId(0), status |-> delivered]
    /\ clock = 1
    /\ Len(emitted) = 1
    /\ \A i \in 1..Len(orders) : orders[i].id # OrderId(0)

(* C30. updateStatus frame: on an existing order updateStatus changes that
   order's status and updatedAt and nothing else: its other fields, its
   index, every other stored order and the number of stored orders stay, so
   no order changes hospital and no placedAt changes. *)
UpdateStatusFrame ==
    [][orders' # orders =>
          /\ Len(orders') = Len(orders)
          /\ \A i \in 1..Len(orders) :
                /\ orders'[i].id = orders[i].id
                /\ orders'[i].hospital = orders[i].hospital
                /\ orders'[i].placedAt = orders[i].placedAt
          /\ \E k \in 1..Len(orders) :
                /\ \A i \in 1..Len(orders) : i # k => orders'[i] = orders[i]
                /\ orders'[k] = [orders[k] EXCEPT !.status = orders'[k].status,
                                                  !.updatedAt = orders'[k].updatedAt]
                /\ orders'[k].updatedAt # orders[k].updatedAt]_vars

UpdateStatusFrameWitness ==
    /\ clock = 2
    /\ orders[1] = [StoredOrder(1, pending, Hospital1) EXCEPT
                       !.status = cancelled, !.updatedAt = Now(1)]
    /\ orders[2] = StoredOrder(2, delivered, Hospital2)

=============================================================================
